---- MODULE Spec2Model ----
(***************************************************************************)
(* A model of talk_async_sqlalchemy: main() of async.py runs flush_db and  *)
(* then six demo coroutines, one after the other, each inside              *)
(* helpers.execute_verbosely_async.  The program is a single asyncio task; *)
(* each action below is one statement (or one awaited call) of the         *)
(* coroutine that is currently running.  The database, the ORM's           *)
(* loaded/unloaded attribute state and the session scopes are modelled as  *)
(* far as the program observes them.                                       *)
(***************************************************************************)
EXTENDS Integers, Sequences, FiniteSets, TLC

(* The database server's clock (func.now()) takes values 1..MaxClock. *)
MaxClock == 3

(* Rows a previous run may have left in each table before flush_db. *)
MaxLeftover == 2

DIVIDER_WIDTH == 80

VARIABLES
    mainPc,        \* main(): "flush", "targets", "loop", "dispose", "done", "aborted"
    idx,           \* the coroutine main() is at: 0 is flush_db, 1..6 index targets
    phase,         \* execute_verbosely_async: "idle", "body", "returned", "raised"
    ip,            \* the step of the running coroutine's body
    created,       \* labels of the coroutine objects main() has created
    started,       \* labels of the coroutines that began to run, in order
    results,       \* <<[label, value]>>: what execute_verbosely_async returned
    output,        \* the lines printed so far
    tables,        \* the database: table name -> rows
    nextId,        \* the database: table name -> next identity key
    clock,         \* the database server's clock
    roundTrips,    \* statements the database has executed
    sessionsMade,  \* connection/session scopes opened so far (the last one's id)
    openScopes,    \* ids of the connection/session scopes that are open
    inTx,          \* a begin() block is open
    instance,      \* the ORM instance built from the constructor arguments
    select_traveler, \* the selector: select_traveler / joinedload_select
    traveler,      \* the ORM instance fetched by session.execute(select_traveler)
    scalar,        \* simple_statement's result object
    result,        \* the local variable result of the reading functions
    ret,           \* the value the running coroutine returned
    error,         \* the exception propagating out of main(), "" if none
    disposeCount,  \* calls of async_engine.dispose()
    reads          \* log of the attribute reads inside try blocks

vars == <<mainPc, idx, phase, ip, created, started, results, output, tables,
          nextId, clock, roundTrips, sessionsMade, openScopes, inTx, instance,
          select_traveler, traveler, scalar, result, ret, error, disposeCount, reads>>

-----------------------------------------------------------------------------
(* models.py *)

TableNames == {"lazy_traveler", "eager_traveler", "traveler_with_destination", "country"}

Table(cls) ==
    CASE cls = "LazyTraveler" -> "lazy_traveler"
      [] cls = "EagerTraveler" -> "eager_traveler"
      [] cls = "TravelerWithDestination" -> "traveler_with_destination"
      [] OTHER -> "country"

(* Mutant: no mapper fetches server defaults with the INSERT. *)
eager_defaults_none(cls) == FALSE

eager_defaults(cls) ==
    CASE cls = "LazyTraveler" -> FALSE
      [] cls = "EagerTraveler" -> TRUE
      [] cls = "TravelerWithDestination" -> TRUE
      [] OTHER -> FALSE

(* The mapped attributes of a traveler class: Base.id, TravelerMixin's     *)
(* columns and, for TravelerWithDestination, the relational fields.        *)
ColumnAttrs(cls) ==
    {"id", "created_at", "name", "age"}
        \cup (IF cls = "TravelerWithDestination" THEN {"destination_id"} ELSE {})

Attrs(cls) ==
    ColumnAttrs(cls)
        \cup (IF cls = "TravelerWithDestination" THEN {"destination"} ELSE {})

NoCountry == [id |-> 0, name |-> ""]

NoInstance ==
    [cls |-> "", id |-> 0, created_at |-> 0, name |-> "", age |-> 0,
     destination_id |-> 0, destination |-> NoCountry, loaded |-> {}, session |-> 0]

(* The constructor call of orm_model: a transient instance; the attributes *)
(* the constructor was given are in its state, the others are not.        *)
NewInstance(cls, name, age, country) ==
    [cls |-> cls, id |-> 0, created_at |-> 0, name |-> name, age |-> age,
     destination_id |-> 0, destination |-> country,
     loaded |-> {"name", "age"} \cup (IF country = NoCountry THEN {} ELSE {"destination"}),
     session |-> 0]

(* instance_state.unloaded: the keys that have no loaded value. *)
Unloaded(inst) == Attrs(inst.cls) \ inst.loaded

-----------------------------------------------------------------------------
(* The values a coroutine returns and the lines print() writes. *)

None == [tag |-> "None", text |-> "", ts |-> 0, fields |-> <<>>]

Str(text, ts, fields) == [tag |-> "str", text |-> text, ts |-> ts, fields |-> fields]

format_divider(label, width) ==
    LET l == IF label # "" THEN "| " \o label \o " |" ELSE label
        pad == IF width > Len(l) THEN width - Len(l) ELSE 0
    IN  [kind |-> "divider", text |-> l, left |-> pad \div 2,
         right |-> pad - (pad \div 2), value |-> None]

PrintLine(kind, text, value) ==
    [kind |-> kind, text |-> text, left |-> 0, right |-> 0, value |-> value]

(* label!r *)
Quoted(s) == "'" \o s \o "'"

-----------------------------------------------------------------------------
(* async.py: main()'s targets and the statements of each coroutine. *)

targets ==
    <<"simple", "lazy_loading", "eager_loading", "unloaded_relationship",
      "access_unloaded_relationship", "access_loaded_relationship">>

Label(i) == IF i = 0 THEN "flush_db" ELSE targets[i]

create_orm_instance_async == <<"construct", "session_open", "begin_add", "commit",
                       "session_close", "return_select">>

_get_destination == <<"session_open", "execute_select", "read_destination",
                    "session_close", "return_result">>

(* Mutant: the read is indented into the session.begin() block. *)
access_attribute_read_inside_begin ==
    <<"construct", "session_open", "begin_add", "read_default", "commit",
      "session_close", "return_result">>

access_attribute_with_server_default ==
    <<"construct", "session_open", "begin_add", "commit", "read_default",
      "session_close", "return_result">>

Body(label) ==
    CASE label = "flush_db" -> <<"flush_begin", "flush_recreate", "flush_end">>
      [] label = "simple" -> <<"connect", "execute_text", "conn_close", "return_scalar">>
      [] label = "lazy_loading" -> access_attribute_with_server_default
      [] label = "eager_loading" -> access_attribute_with_server_default
      [] label = "unloaded_relationship" ->
            create_orm_instance_async \o <<"session_open", "execute_select", "session_close",
                                   "return_repr">>
      [] label = "access_unloaded_relationship" -> create_orm_instance_async \o _get_destination
      [] label = "access_loaded_relationship" ->
            create_orm_instance_async \o <<"joinedload">> \o _get_destination

(* The record type each coroutine constructs. *)
orm_model(label) ==
    CASE label = "lazy_loading" -> "LazyTraveler"
      [] label = "eager_loading" -> "EagerTraveler"
      [] OTHER -> "TravelerWithDestination"

CreationCountry(label) ==
    IF orm_model(label) = "TravelerWithDestination"
    THEN [id |-> 0, name |-> "Norway"]
    ELSE NoCountry

(* A row of an earlier run of the program, found in the database at start. *)
LeftoverRow(t, i) ==
    IF t = "country"
    THEN [id |-> i, name |-> "Norway"]
    ELSE [id |-> i, created_at |-> 1, name |-> "Sebastiaan", age |-> 35,
          destination_id |-> IF t = "traveler_with_destination" THEN i ELSE 0]

Running == mainPc \in {"flush", "loop"} /\ phase = "body"

CurStep == IF Running THEN Body(Label(idx))[ip] ELSE ""

At(step) == Running /\ Body(Label(idx))[ip] = step

Init ==
    /\ mainPc = "flush"
    /\ idx = 0
    /\ phase = "idle"
    /\ ip = 0
    /\ created = <<>>
    /\ started = <<>>
    /\ results = <<>>
    /\ output = <<>>
    /\ \E n \in 0..MaxLeftover :
          /\ tables = [t \in TableNames |-> [i \in 1..n |-> LeftoverRow(t, i)]]
          /\ nextId = [t \in TableNames |-> n + 1]
    /\ clock = 1
    /\ roundTrips = 0
    /\ sessionsMade = 0
    /\ openScopes = {}
    /\ inTx = FALSE
    /\ instance = NoInstance
    /\ select_traveler = [model |-> "", key |-> "", value |-> 0, joinedload |-> FALSE]
    /\ traveler = NoInstance
    /\ scalar = None
    /\ result = None
    /\ ret = None
    /\ error = ""
    /\ disposeCount = 0
    /\ reads = <<>>

-----------------------------------------------------------------------------
(* The ORM and the database, as the program uses them. *)

dbVars == <<tables, nextId, clock, roundTrips>>
scopeVars == <<sessionsMade, openScopes, inTx>>
ormVars == <<instance, select_traveler, traveler>>
localVars == <<scalar, result, ret>>
mainVars == <<created, started, results, disposeCount>>

NoSelect == [model |-> "", key |-> "", value |-> 0, joinedload |-> FALSE]

(* Mutant: the sessionmaker's default, expire_on_commit=True. *)
expire_on_commit_default == TRUE

(* sessionmaker(..., expire_on_commit=False) *)
expire_on_commit == FALSE

(* Reading instance.<key> in plain (not awaited) code.  A loaded attribute *)
(* is returned from the instance's state.  An unloaded one makes the ORM   *)
(* emit a SELECT: through an AsyncSession that is attempted outside of the *)
(* greenlet context and raises MissingGreenlet; an instance whose session  *)
(* has closed raises DetachedInstanceError; None has no attributes.        *)
ReadAttr(inst, key) ==
    IF inst = NoInstance THEN "AttributeError"
    ELSE IF key \in inst.loaded THEN "ok"
    ELSE IF inst.session # 0 THEN "MissingGreenlet"
    ELSE "DetachedInstanceError"

(* Mutant: the except clause names another exception type. *)
CatchesInvalidRequest(e) == e = "InvalidRequestError"

(* except exc.MissingGreenlet *)
Catches(e) == e = "MissingGreenlet"

(* The instance after the flush that INSERTs it: the identity key (and the  *)
(* foreign key) come back from the INSERT, the server default only with     *)
(* eager_defaults; the commit then expires everything or nothing.           *)
Flushed(inst, tid, cid, t) ==
    LET twd == inst.cls = "TravelerWithDestination"
        got == {"id"} \cup (IF twd THEN {"destination_id"} ELSE {})
                      \cup (IF eager_defaults(inst.cls) THEN {"created_at"} ELSE {})
    IN  [inst EXCEPT
            !.id = tid,
            !.destination_id = IF twd THEN cid ELSE 0,
            !.destination = IF twd THEN [id |-> cid, name |-> inst.destination.name]
                            ELSE NoCountry,
            !.created_at = IF eager_defaults(inst.cls) THEN t ELSE 0,
            !.loaded = IF expire_on_commit THEN {} ELSE inst.loaded \cup got]

(* Mutant: the selector is keyed on the name instead of the identity key. *)
BuildSelectByName(inst) ==
    [model |-> inst.cls, key |-> "name", value |-> inst.name, joinedload |-> FALSE]

(* sqlalchemy.select(orm_model).where(orm_model.id == instance.id) *)
BuildSelect(inst) ==
    [model |-> inst.cls, key |-> "id", value |-> inst.id, joinedload |-> FALSE]

(* The rows of the selector's table that its WHERE clause keeps. *)
SelectRows(sel) ==
    SelectSeq(tables[Table(sel.model)], LAMBDA r : r[sel.key] = sel.value)

CountryById(cid) ==
    LET cs == SelectSeq(tables["country"], LAMBDA c : c.id = cid)
    IN  IF cs = <<>> THEN NoCountry ELSE cs[1]

(* result.scalar(): the first row as an instance of the model, owned by     *)
(* session sid; every column is loaded, the relationship only when the      *)
(* selector carries joinedload.  No row gives None.                         *)
Fetched(sel, sid) ==
    LET rows == SelectRows(sel)
        r == rows[1]
        twd == sel.model = "TravelerWithDestination"
    IN  IF rows = <<>> THEN NoInstance
        ELSE [cls |-> sel.model, id |-> r.id, created_at |-> r.created_at,
              name |-> r.name, age |-> r.age, destination_id |-> r.destination_id,
              destination |-> IF sel.joinedload THEN CountryById(r.destination_id)
                              ELSE NoCountry,
              loaded |-> ColumnAttrs(sel.model)
                            \cup (IF sel.joinedload THEN {"destination"} ELSE {}),
              session |-> sid]

(* Mutant: __repr__ reads attr.value of every attribute. *)
ReprReadsAll(inst) == Attrs(inst.cls)

(* RepresentableMixin.__repr__: the attributes whose attr.value is read. *)
ReprReads(inst) == {k \in Attrs(inst.cls) : k \notin Unloaded(inst)}

ReprErrors(inst) == {ReadAttr(inst, k) : k \in ReprReads(inst)} \ {"ok"}

__repr__(inst) ==
    Str(inst.cls, 0,
        [k \in Attrs(inst.cls) |->
            IF k \in ReprReads(inst)
            THEN [loaded |-> TRUE, val |-> inst[k]]
            ELSE [loaded |-> FALSE, val |-> "<NOT_LOADED>"]])

Detached(inst) == IF inst = NoInstance THEN inst ELSE [inst EXCEPT !.session = 0]

-----------------------------------------------------------------------------
(* Control flow. *)

Advance == ip' = ip + 1 /\ UNCHANGED <<mainPc, idx, phase>>

Return(v) == ret' = v /\ phase' = "returned" /\ UNCHANGED <<mainPc, idx, ip>>

(* Mutant: the exception is swallowed around the await and the loop goes on. *)
RaiseSwallowed(e) ==
    /\ error' = e
    /\ phase' = "returned"
    /\ openScopes' = {}
    /\ inTx' = FALSE
    /\ instance' = Detached(instance)
    /\ traveler' = Detached(traveler)
    /\ UNCHANGED <<mainPc, idx, ip, sessionsMade, select_traveler>>

(* An exception leaves the coroutine: every enclosing async-with block      *)
(* exits (the session closes, the open transaction rolls back), neither     *)
(* execute_verbosely_async nor main() handles it.                           *)
Raise(e) ==
    /\ error' = e
    /\ mainPc' = "aborted"
    /\ phase' = "raised"
    /\ openScopes' = {}
    /\ inTx' = FALSE
    /\ instance' = Detached(instance)
    /\ traveler' = Detached(traveler)
    /\ UNCHANGED <<idx, ip, sessionsMade, select_traveler>>

(* helpers.execute_verbosely_async, up to its await *)
execute_verbosely_async_start ==
    /\ phase = "idle"
    /\ \/ mainPc = "flush" /\ idx = 0
       \/ mainPc = "loop" /\ idx \in 1..Len(targets)
    /\ output' = Append(output,
            format_divider("Start Execution of " \o Quoted(Label(idx)), DIVIDER_WIDTH))
    /\ started' = Append(started, Label(idx))
    /\ phase' = "body"
    /\ ip' = 1
    /\ instance' = NoInstance
    /\ select_traveler' = NoSelect
    /\ traveler' = NoInstance
    /\ scalar' = None
    /\ result' = None
    /\ ret' = None
    /\ UNCHANGED <<mainPc, idx, created, results, disposeCount, dbVars, scopeVars,
                   error, reads>>

(* Mutant: the result is printed without the placeholder for None. *)
ResultLineNoPlaceholder(r) == PrintLine("result", r.text, r)

(* print(result if result is not None else "(no result)") *)
ResultLine(r) == PrintLine("result", IF r = None THEN "(no result)" ELSE r.text, r)

(* helpers.execute_verbosely_async, after its await; control is back in     *)
(* main(), which goes on to the next target or leaves the loop.             *)
execute_verbosely_async_finish ==
    /\ mainPc \in {"flush", "loop"}
    /\ phase = "returned"
    /\ output' = output \o <<format_divider("Result", DIVIDER_WIDTH), ResultLine(ret),
                             format_divider("End", DIVIDER_WIDTH),
                             PrintLine("blank", "", None), PrintLine("blank", "", None)>>
    /\ results' = Append(results, [label |-> Label(idx), value |-> ret])
    /\ phase' = "idle"
    /\ IF mainPc = "flush" THEN mainPc' = "targets" /\ idx' = idx
       ELSE IF idx < Len(targets) THEN mainPc' = "loop" /\ idx' = idx + 1
       ELSE mainPc' = "dispose" /\ idx' = idx
    /\ UNCHANGED <<ip, created, started, disposeCount, dbVars, scopeVars, ormVars,
                   localVars, error, reads>>

(* main(): the targets dict; the coroutine objects exist, none has run *)
BuildTargets ==
    /\ mainPc = "targets"
    /\ created' = targets
    /\ mainPc' = "loop"
    /\ idx' = 1
    /\ UNCHANGED <<phase, ip, started, results, disposeCount, output, dbVars,
                   scopeVars, ormVars, localVars, error, reads>>

(* Mutant: the dispose call is indented into the for loop. *)
DisposeInsideLoop ==
    /\ \/ mainPc = "dispose"
       \/ mainPc = "loop" /\ phase = "idle" /\ idx > 1 /\ disposeCount < idx - 1
    /\ disposeCount' = disposeCount + 1
    /\ mainPc' = IF mainPc = "dispose" THEN "done" ELSE mainPc
    /\ UNCHANGED <<idx, phase, ip, created, started, results, output, dbVars,
                   scopeVars, ormVars, localVars, error, reads>>

(* main(): await async_engine.dispose() *)
Dispose ==
    /\ mainPc = "dispose"
    /\ disposeCount' = disposeCount + 1
    /\ mainPc' = "done"
    /\ UNCHANGED <<idx, phase, ip, created, started, results, output, dbVars,
                   scopeVars, ormVars, localVars, error, reads>>

-----------------------------------------------------------------------------
(* helpers.flush_database_async *)

OpenScope ==
    /\ sessionsMade' = sessionsMade + 1
    /\ openScopes' = openScopes \cup {sessionsMade + 1}

(* Mutant: the scope is left without being closed. *)
CloseScopeLeak ==
    /\ openScopes' = openScopes
    /\ instance' = instance
    /\ traveler' = traveler
    /\ UNCHANGED sessionsMade

(* Leaving an async-with block: the scope it opened closes, and the         *)
(* instances the session held are detached from it.                         *)
CloseScope ==
    /\ openScopes' = openScopes \ {sessionsMade}
    /\ instance' = IF instance.session = sessionsMade THEN Detached(instance) ELSE instance
    /\ traveler' = IF traveler.session = sessionsMade THEN Detached(traveler) ELSE traveler
    /\ UNCHANGED sessionsMade

(* async with async_engine.begin() as conn *)
FlushBegin ==
    /\ At("flush_begin")
    /\ OpenScope
    /\ inTx' = TRUE
    /\ Advance
    /\ UNCHANGED <<mainVars, output, dbVars, ormVars, localVars, error, reads>>

(* drop_all, create_all: every table is empty, every identity starts anew *)
FlushRecreate ==
    /\ At("flush_recreate")
    /\ tables' = [t \in TableNames |-> <<>>]
    /\ nextId' = [t \in TableNames |-> 1]
    /\ roundTrips' = roundTrips + 2
    /\ Advance
    /\ UNCHANGED <<mainVars, output, clock, scopeVars, ormVars, localVars, error, reads>>

FlushEnd ==
    /\ At("flush_end")
    /\ CloseScope
    /\ inTx' = FALSE
    /\ Return(None)
    /\ UNCHANGED <<mainVars, output, dbVars, select_traveler, scalar, result, error, reads>>

-----------------------------------------------------------------------------
(* async.simple_statement *)

(* main() passes "Hello, world!" *)
message == "Hello, world!"

(* SELECT :message gives back the bound parameter. *)
SelectParameter(m) == Str(m, 0, <<>>)

Connect ==
    /\ At("connect")
    /\ OpenScope
    /\ Advance
    /\ UNCHANGED <<mainVars, output, dbVars, inTx, ormVars, localVars, error, reads>>

ExecuteText ==
    /\ At("execute_text")
    /\ scalar' = SelectParameter(message)
    /\ roundTrips' = roundTrips + 1
    /\ Advance
    /\ UNCHANGED <<mainVars, output, tables, nextId, clock, scopeVars, ormVars,
                   result, ret, error, reads>>

ConnClose ==
    /\ At("conn_close")
    /\ CloseScope
    /\ Advance
    /\ UNCHANGED <<mainVars, output, dbVars, inTx, select_traveler, localVars, error, reads>>

ReturnScalar ==
    /\ At("return_scalar")
    /\ Return(scalar)
    /\ UNCHANGED <<mainVars, output, dbVars, scopeVars, ormVars, scalar, result,
                   error, reads>>

-----------------------------------------------------------------------------
(* helpers.create_orm_instance_async, helpers.access_attribute_with_server_default *)

Construct ==
    /\ At("construct")
    /\ instance' = NewInstance(orm_model(Label(idx)), "Sebastiaan", 35,
                               CreationCountry(Label(idx)))
    /\ Advance
    /\ UNCHANGED <<mainVars, output, dbVars, scopeVars, select_traveler, traveler, localVars,
                   error, reads>>

(* async with session_maker() as session *)
SessionOpen ==
    /\ At("session_open")
    /\ OpenScope
    /\ Advance
    /\ UNCHANGED <<mainVars, output, dbVars, inTx, ormVars, localVars, error, reads>>

(* async with session.begin(): session.add(instance) *)
BeginAdd ==
    /\ At("begin_add")
    /\ inTx' = TRUE
    /\ instance' = [instance EXCEPT !.session = sessionsMade]
    /\ Advance
    /\ UNCHANGED <<mainVars, output, dbVars, sessionsMade, openScopes, select_traveler,
                   traveler, localVars, error, reads>>

(* Leaving the session.begin() block: the flush INSERTs the nested Country  *)
(* and then the traveler, the server stamps created_at, the transaction     *)
(* commits.                                                                  *)
Commit ==
    /\ At("commit")
    /\ \E t \in clock..MaxClock :
        LET cls == instance.cls
            twd == cls = "TravelerWithDestination"
            tid == nextId[Table(cls)]
            cid == nextId["country"]
            row == [id |-> tid, created_at |-> t, name |-> instance.name,
                    age |-> instance.age, destination_id |-> IF twd THEN cid ELSE 0]
            withCountry ==
                IF twd
                THEN [tables EXCEPT !["country"] =
                        Append(@, [id |-> cid, name |-> instance.destination.name])]
                ELSE tables
        IN  /\ tables' = [withCountry EXCEPT ![Table(cls)] = Append(@, row)]
            /\ nextId' = [t2 \in TableNames |->
                            IF t2 = Table(cls) \/ (twd /\ t2 = "country")
                            THEN nextId[t2] + 1 ELSE nextId[t2]]
            /\ clock' = t
            /\ roundTrips' = roundTrips + (IF twd THEN 2 ELSE 1)
            /\ instance' = Flushed(instance, tid, cid, t)
    /\ inTx' = FALSE
    /\ Advance
    /\ UNCHANGED <<mainVars, output, sessionsMade, openScopes, select_traveler, traveler,
                   localVars, error, reads>>

SessionClose ==
    /\ At("session_close")
    /\ CloseScope
    /\ Advance
    /\ UNCHANGED <<mainVars, output, dbVars, inTx, select_traveler, localVars, error, reads>>

(* return sqlalchemy.select(orm_model).where(... == instance.id) *)
ReturnSelect ==
    /\ At("return_select")
    /\ IF ReadAttr(instance, "id") = "ok"
       THEN /\ select_traveler' = BuildSelect(instance)
            /\ Advance
            /\ UNCHANGED <<scopeVars, instance, traveler, error>>
       ELSE Raise(ReadAttr(instance, "id"))
    /\ UNCHANGED <<mainVars, output, dbVars, localVars, reads>>

-----------------------------------------------------------------------------
(* async.access_loaded_relationship, async._get_destination, *)
(* async.unloaded_relationship                                *)

(* select_traveler.options(orm.joinedload(TravelerWithDestination.destination)) *)
JoinedLoad ==
    /\ At("joinedload")
    /\ select_traveler' = [select_traveler EXCEPT !.joinedload = TRUE]
    /\ Advance
    /\ UNCHANGED <<mainVars, output, dbVars, scopeVars, instance, traveler,
                   localVars, error, reads>>

(* result = await session.execute(select_traveler); traveler = result.scalar() *)
ExecuteSelect ==
    /\ At("execute_select")
    /\ traveler' = Fetched(select_traveler, sessionsMade)
    /\ roundTrips' = roundTrips + 1
    /\ Advance
    /\ UNCHANGED <<mainVars, output, tables, nextId, clock, scopeVars, instance,
                   select_traveler, localVars, error, reads>>

(* What a try block's read found, logged as the read happens. *)
ReadRecord(inst, key, outcome) ==
    [label |-> Label(idx), key |-> key, unloaded |-> key \in Unloaded(inst),
     scopes |-> openScopes, inTx |-> inTx, session |-> inst.session,
     committed |-> SelectRows(BuildSelect(inst)) # <<>>, outcome |-> outcome]

(* The print, the try block and the except clause shared by the two         *)
(* reading functions: value is the result built when the read succeeds.     *)
TryRead(inst, key, divider, outcome, value) ==
    /\ reads' = Append(reads, ReadRecord(inst, key, outcome))
    /\ IF outcome = "ok"
       THEN /\ output' = Append(output, format_divider(divider, DIVIDER_WIDTH))
            /\ result' = value
            /\ Advance
            /\ UNCHANGED <<scopeVars, ormVars, error>>
       ELSE IF Catches(outcome)
       THEN /\ output' = output \o
                    <<format_divider(divider, DIVIDER_WIDTH),
                      PrintLine("exception",
                                "Cannot access lazy attribute: " \o outcome, None)>>
            /\ result' = None
            /\ Advance
            /\ UNCHANGED <<scopeVars, ormVars, error>>
       ELSE /\ output' = Append(output, format_divider(divider, DIVIDER_WIDTH))
            /\ Raise(outcome)
            /\ UNCHANGED result
    /\ UNCHANGED <<mainVars, dbVars, scalar, ret>>

(* helpers.access_attribute_with_server_default: traveler.created_at *)
ReadDefault ==
    /\ At("read_default")
    /\ TryRead(instance, "created_at", "Engine activity after committing ORM-instance",
               ReadAttr(instance, "created_at"),
               Str("Traveler Sebastiaan created at: ", instance.created_at, <<>>))

(* traveler.destination.name: the relationship, then the Country's name *)
ReadDestinationOutcome(inst) ==
    IF ReadAttr(inst, "destination") # "ok" THEN ReadAttr(inst, "destination")
    ELSE IF inst.destination = NoCountry THEN "AttributeError"
    ELSE "ok"

(* async._get_destination *)
ReadDestination ==
    /\ At("read_destination")
    /\ TryRead(traveler, "destination", "Engine activity after fetching ORM-instance",
               ReadDestinationOutcome(traveler),
               Str("The traveler is traveling to " \o Quoted(traveler.destination.name),
                   0, <<>>))

(* return f"{traveler!r}" *)
ReturnRepr ==
    /\ At("return_repr")
    /\ IF traveler = NoInstance
       THEN /\ Return(Str("None", 0, <<>>))
            /\ UNCHANGED <<scopeVars, ormVars, error>>
       ELSE IF ReprErrors(traveler) = {}
       THEN /\ Return(__repr__(traveler))
            /\ UNCHANGED <<scopeVars, ormVars, error>>
       ELSE /\ Raise(CHOOSE e \in ReprErrors(traveler) : TRUE)
            /\ UNCHANGED ret
    /\ UNCHANGED <<mainVars, output, dbVars, scalar, result, reads>>

(* return result *)
ReturnResult ==
    /\ At("return_result")
    /\ Return(result)
    /\ UNCHANGED <<mainVars, output, dbVars, scopeVars, ormVars, scalar, result,
                   error, reads>>

-----------------------------------------------------------------------------
(* Errors the program does not anticipate. *)

OtherErrors == {"ConnectionError", "DBAPIError"}

(* The awaited calls that talk to the database. *)
IOSteps == {"flush_begin", "flush_recreate", "connect", "execute_text", "commit",
            "execute_select"}

(* An awaited database call fails instead of completing. *)
Fault ==
    /\ Running
    /\ CurStep \in IOSteps
    /\ \E e \in OtherErrors : Raise(e)
    /\ UNCHANGED <<mainVars, output, dbVars, localVars, reads>>

Next ==
    \/ execute_verbosely_async_start
    \/ execute_verbosely_async_finish
    \/ BuildTargets
    \/ Dispose
    \/ FlushBegin
    \/ FlushRecreate
    \/ FlushEnd
    \/ Connect
    \/ ExecuteText
    \/ ConnClose
    \/ ReturnScalar
    \/ Construct
    \/ SessionOpen
    \/ BeginAdd
    \/ Commit
    \/ SessionClose
    \/ ReturnSelect
    \/ JoinedLoad
    \/ ExecuteSelect
    \/ ReadDefault
    \/ ReadDestination
    \/ ReturnRepr
    \/ ReturnResult
    \/ Fault

Spec == Init /\ [][Next]_vars

-----------------------------------------------------------------------------
(* Vocabulary of the properties below. *)

ExpectedOrder ==
    <<"flush_db", "simple", "lazy_loading", "eager_loading", "unloaded_relationship",
      "access_unloaded_relationship", "access_loaded_relationship">>

FailingScenarios == {"lazy_loading", "access_unloaded_relationship"}

IsPrefix(s, t) == Len(s) <= Len(t) /\ s = SubSeq(t, 1, Len(s))

Completed(l) == \E i \in 1..Len(results) : results[i].label = l

ResultOf(l) == results[CHOOSE i \in 1..Len(results) : results[i].label = l].value

ScenarioResults == {i \in 1..Len(results) : results[i].label # "flush_db"}

ReadsOf(l) == SelectSeq(reads, LAMBDA r : r.label = l)

Caught(r) == r.outcome = "MissingGreenlet"

ExceptionLines(seq) == SelectSeq(seq, LAMBDA ln : ln.kind = "exception")

StartLine(l) == format_divider("Start Execution of " \o Quoted(l), DIVIDER_WIDTH)

StartPos(l) == CHOOSE j \in 1..Len(output) : output[j] = StartLine(l)

TravelerRows == tables["traveler_with_destination"]

(* C1: main() runs flush_db and then the six scenarios in the fixed order;  *)
(* the results produced so far always follow that order, a scenario's       *)
(* result is None exactly for lazy_loading and access_unloaded_relationship,*)
(* a caught failure never leaves its scenario as an exception, and a run    *)
(* that reaches its end has 4 non-None and 2 None scenario results.         *)
C1_FixedOrderFourAndTwo ==
    /\ IsPrefix(started, ExpectedOrder)
    /\ IsPrefix([i \in 1..Len(results) |-> results[i].label], ExpectedOrder)
    /\ \A i \in ScenarioResults :
          (results[i].value = None) <=> (results[i].label \in FailingScenarios)
    /\ error # "MissingGreenlet"
    /\ \A l \in FailingScenarios :
          (Completed(l) /\ mainPc # "aborted" /\ mainPc # "done") => ENABLED Next
    /\ mainPc = "done" =>
          /\ Len(results) = Len(ExpectedOrder)
          /\ Cardinality({i \in ScenarioResults : results[i].value # None}) = 4
          /\ Cardinality({i \in ScenarioResults : results[i].value = None}) = 2

C1_Witness ==
    /\ mainPc = "done"
    /\ Len(results) = 7
    /\ results[3].value = None
    /\ results[7].value # None

(* C2: a read of an unloaded target field always raises MissingGreenlet,    *)
(* which is caught where it is raised: one "Cannot access lazy attribute"   *)
(* line per such read, result None, never an exception leaving the          *)
(* scenario; this is what happens in lazy_loading (created_at) and in       *)
(* access_unloaded_relationship (destination).                              *)
C2_UnloadedReadCaught ==
    /\ \A i \in 1..Len(reads) : reads[i].unloaded => Caught(reads[i])
    /\ error # "MissingGreenlet"
    /\ Len(ExceptionLines(output)) = Len(SelectSeq(reads, Caught))
    /\ \A l \in FailingScenarios :
          /\ Len(ReadsOf(l)) <= 1
          /\ \A i \in 1..Len(ReadsOf(l)) :
                /\ ReadsOf(l)[i].unloaded
                /\ ReadsOf(l)[i].key = (IF l = "lazy_loading" THEN "created_at"
                                        ELSE "destination")
          /\ (Label(idx) = l /\ CurStep \in {"session_close", "return_result"}
                /\ Len(ReadsOf(l)) = 1) => result = None
          /\ Completed(l) => (ResultOf(l) = None /\ Len(ReadsOf(l)) = 1)

C2_Witness ==
    /\ Completed("lazy_loading")
    /\ Completed("access_unloaded_relationship")
    /\ ResultOf("access_unloaded_relationship") = None
    /\ Len(ExceptionLines(output)) = 2

C4_ReprState ==
    /\ At("return_repr") =>
          /\ openScopes = {}
          /\ traveler # NoInstance
          /\ traveler.session = 0
          /\ Unloaded(traveler) = {"destination"}
    /\ (Label(idx) = "unloaded_relationship" /\ phase = "returned") =>
          /\ ret.tag = "str"
          /\ ret.text = "TravelerWithDestination"
          /\ DOMAIN ret.fields = Attrs("TravelerWithDestination")
          /\ ret.fields["destination"] = [loaded |-> FALSE, val |-> "<NOT_LOADED>"]
          /\ \A k \in ColumnAttrs("TravelerWithDestination") :
                /\ ret.fields[k] = [loaded |-> TRUE, val |-> traveler[k]]
                /\ traveler[k] = TravelerRows[Len(TravelerRows)][k]

(* The step that builds the representation. *)
C4_ReprStep ==
    At("return_repr") =>
        /\ phase' = "returned"
        /\ error' = ""
        /\ roundTrips' = roundTrips
        /\ traveler' = traveler
        /\ Unloaded(traveler') = Unloaded(traveler)

(* C4: unloaded_relationship builds the representation after the fetching   *)
(* session has exited, with destination unloaded; building it raises        *)
(* nothing, sends the database nothing and leaves the instance as it was;   *)
(* destination is rendered <NOT_LOADED>, every other field with its value.  *)
C4_ReprNeverFetches == []C4_ReprState /\ [][C4_ReprStep]_vars

C4_Witness ==
    /\ Completed("unloaded_relationship")
    /\ ResultOf("unloaded_relationship").fields["destination"].val = "<NOT_LOADED>"
    /\ ResultOf("unloaded_relationship").fields["name"].val = "Sebastiaan"

(* C5: an error other than MissingGreenlet is never turned into a result:   *)
(* it leaves the scenario, execute_verbosely_async and main(); the failing  *)
(* scenario has no 'Result' or 'End' line and no result, no later scenario  *)
(* starts, and nothing more happens.  Only MissingGreenlet is ever caught.  *)
C5_OtherErrorsPropagate ==
    /\ \A i \in 1..Len(reads) :
          /\ reads[i].outcome \in {"ok", "MissingGreenlet"} \/ error = reads[i].outcome
          /\ (Completed(reads[i].label) /\ ResultOf(reads[i].label) = None)
                => Caught(reads[i])
    /\ \A i \in 1..Len(output) :
          output[i].kind = "exception"
              => output[i].text = "Cannot access lazy attribute: MissingGreenlet"
    /\ error # "" =>
          /\ mainPc = "aborted"
          /\ phase = "raised"
          /\ ~ENABLED Next
          /\ started[Len(started)] = Label(idx)
          /\ Len(results) = Len(started) - 1
          /\ ~Completed(Label(idx))
          /\ \A j \in StartPos(Label(idx))..Len(output) :
                output[j].text \notin {"| Result |", "| End |"}
          /\ disposeCount = 0

C5_Witness ==
    /\ error \in OtherErrors
    /\ Label(idx) = "access_unloaded_relationship"
    /\ CurStep = ""
    /\ Body(Label(idx))[ip] = "execute_select"
    /\ Completed("lazy_loading")

C6_ReleaseState ==
    /\ disposeCount <= 1
    /\ (disposeCount = 1) <=> (mainPc = "done")
    /\ mainPc = "aborted" => disposeCount = 0
    /\ mainPc \in {"dispose", "done"} =>
          /\ \A k \in 2..Len(ExpectedOrder) : Completed(ExpectedOrder[k])
          /\ Len(started) = Len(ExpectedOrder)
          /\ phase = "idle"
          /\ openScopes = {}
          /\ ~inTx
    /\ mainPc = "done" => ~ENABLED Next

(* Every step taken once the engine is released. *)
C6_ReleaseStep ==
    disposeCount >= 1 => (sessionsMade' = sessionsMade /\ openScopes' = {})

C7_NoOverlap ==
    /\ Cardinality(openScopes) <= 1
    /\ openScopes \subseteq {sessionsMade}
    /\ Len(started) - Len(results) \in {0, 1}
    /\ (Len(started) - Len(results) = 1) <=> (phase \in {"body", "returned", "raised"})
    /\ Len(started) >= 2 => created = SubSeq(ExpectedOrder, 2, Len(ExpectedOrder))
    /\ mainPc = "loop" => (Len(created) = 6 /\ Len(started) <= idx + 1)
    /\ phase \in {"idle", "returned", "raised"} => (openScopes = {} /\ ~inTx)
    /\ CurStep \in {"return_result", "return_repr", "return_scalar", "return_select"}
          => (openScopes = {} /\ ~inTx)
    /\ CurStep \in {"session_open", "connect", "flush_begin"} => openScopes = {}

C7_Witness ==
    /\ Label(idx) = "access_unloaded_relationship"
    /\ phase = "returned"
    /\ ret = None
    /\ sessionsMade = 8
    /\ openScopes = {}

(* The lines execute_verbosely_async(label) and its coroutine printed: from *)
(* the start divider to the first end divider after it.                     *)
EndPos(l) ==
    CHOOSE j \in StartPos(l)..Len(output) :
        /\ output[j].text = "| End |"
        /\ \A k \in StartPos(l)..(j - 1) : output[k].text # "| End |"

Segment(l) == SubSeq(output, StartPos(l), EndPos(l))

DividerTexts(seq) ==
    LET ds == SelectSeq(seq, LAMBDA ln : ln.kind = "divider")
    IN  [i \in 1..Len(ds) |-> ds[i].text]

StartText(l) == "| Start Execution of '" \o l \o "' |"

(* The divider a reading function prints before its try block. *)
ActivityDivider(l) ==
    IF l \in {"lazy_loading", "eager_loading"}
    THEN <<"| Engine activity after committing ORM-instance |">>
    ELSE IF l \in {"access_unloaded_relationship", "access_loaded_relationship"}
    THEN <<"| Engine activity after fetching ORM-instance |">>
    ELSE <<>>

ExceptionLine == PrintLine("exception", "Cannot access lazy attribute: MissingGreenlet", None)

ResultAndException(l) ==
    /\ Len(ExceptionLines(Segment(l))) = (IF ResultOf(l) = None /\ l # "flush_db" THEN 1 ELSE 0)
    /\ LET seg == Segment(l)
           r == ResultOf(l)
       IN  /\ seg[Len(seg) - 2].text = "| Result |"
           /\ seg[Len(seg) - 1].kind = "result"
           /\ seg[Len(seg) - 1].value = r
           /\ (seg[Len(seg) - 1].text = "(no result)") <=> (r = None)
           /\ r # None => seg[Len(seg) - 1].text = r.text
           /\ seg[Len(seg)].text = "| End |"
    /\ (phase = "idle" /\ results # <<>>) => results[Len(results)].value = ret

(* C8 as stated: between a scenario's start divider and its end divider the *)
(* only dividers are start, result and end.                                 *)
C8_ThreeDividersOnly ==
    \A l \in {ExpectedOrder[k] : k \in 1..Len(ExpectedOrder)} :
        Completed(l) =>
            /\ DividerTexts(Segment(l)) = <<StartText(l), "| Result |", "| End |">>
            /\ ResultAndException(l)

(* C8: for each scenario the output is the start divider with the label,    *)
(* the result divider followed by the result ('(no result)' exactly when    *)
(* it is None) and the end divider, one line with the caught exception for  *)
(* the failing scenarios only, and, in the four scenarios that read a       *)
(* field inside a try block, one further divider 'Engine activity after     *)
(* ...' between the start divider and the exception or result divider;      *)
(* execute_verbosely_async returns the coroutine's result unchanged.        *)
C8_OutputShape ==
    \A l \in {ExpectedOrder[k] : k \in 1..Len(ExpectedOrder)} :
        Completed(l) =>
            /\ DividerTexts(Segment(l)) =
                  <<StartText(l)>> \o ActivityDivider(l) \o <<"| Result |", "| End |">>
            /\ ResultAndException(l)
            /\ Segment(l)[1] = [kind |-> "divider", text |-> StartText(l),
                                left |-> (80 - Len(StartText(l))) \div 2,
                                right |-> 80 - Len(StartText(l))
                                            - ((80 - Len(StartText(l))) \div 2),
                                value |-> None]
            /\ ExceptionLines(Segment(l)) # <<>> =>
                  /\ Segment(l)[2].text = ActivityDivider(l)[1]
                  /\ Segment(l)[3] = ExceptionLine
                  /\ Len(Segment(l)) = 6

C8_Witness ==
    /\ Completed("access_unloaded_relationship")
    /\ Completed("access_loaded_relationship")
    /\ Len(ExceptionLines(Segment("access_unloaded_relationship"))) = 1
    /\ Len(Segment("access_loaded_relationship")) = 5

(* C9 as stated: at every read inside a try block the insert has committed  *)
(* and no session is open.                                                  *)
C9_ReadAfterSessionExit ==
    \A i \in 1..Len(reads) :
        /\ Caught(reads[i]) => reads[i].unloaded
        /\ reads[i].committed
        /\ ~reads[i].inTx
        /\ reads[i].scopes = {}

(* C9: every read that ends in a caught failure is a read of a field that   *)
(* is not loaded; at every read inside a try block the insert transaction   *)
(* has committed and its begin() block has exited, while the session scope  *)
(* in which the instance was inserted or fetched is still open (it is the   *)
(* only open scope and the instance belongs to it).  Only the               *)
(* representation of unloaded_relationship is built with no session open.   *)
C9_ReadInsideOpenSession ==
    /\ \A i \in 1..Len(reads) :
          /\ Caught(reads[i]) => reads[i].unloaded
          /\ reads[i].committed
          /\ ~reads[i].inTx
          /\ reads[i].session # 0
          /\ reads[i].scopes = {reads[i].session}
    /\ CurStep \in {"read_default", "read_destination"} =>
          /\ openScopes = {sessionsMade}
          /\ ~inTx
          /\ (IF CurStep = "read_default" THEN instance ELSE traveler).session = sessionsMade
    /\ CurStep = "return_repr" => (openScopes = {} /\ traveler.session = 0)

C9_Witness ==
    /\ Len(reads) = 4
    /\ Caught(reads[1])
    /\ Caught(reads[3])
    /\ reads[3].scopes # {}

(* C10: create_orm_instance_async returns its selector with the insert      *)
(* committed and no scope open; the selector is keyed on the identity key   *)
(* the database gave the inserted row; it selects that one row, the last    *)
(* one inserted, however many rows with the same field values the table     *)
(* holds, and the instance fetched with it is that row.                     *)
C10_SelectorRefetchesInserted ==
    /\ CurStep = "return_select" =>
          /\ openScopes = {}
          /\ ~inTx
          /\ instance.id >= 1
          /\ instance.id = TravelerRows[Len(TravelerRows)].id
    /\ select_traveler.model # "" =>
          /\ select_traveler.model = instance.cls
          /\ select_traveler.key = "id"
          /\ select_traveler.value = instance.id
          /\ SelectRows(select_traveler) = <<TravelerRows[Len(TravelerRows)]>>
          /\ \A i \in 1..(Len(TravelerRows) - 1) : TravelerRows[i].id # select_traveler.value
    /\ traveler # NoInstance =>
          /\ traveler.id = instance.id
          /\ traveler.id = Len(TravelerRows)
          /\ \A k \in ColumnAttrs("TravelerWithDestination") :
                traveler[k] = TravelerRows[Len(TravelerRows)][k]
          /\ traveler.destination_id = instance.destination_id

C10_Witness ==
    /\ Label(idx) = "access_loaded_relationship"
    /\ traveler # NoInstance
    /\ traveler.id = 3
    /\ Len(TravelerRows) = 3
    /\ \A i \in 1..3 : TravelerRows[i].name = "Sebastiaan" /\ TravelerRows[i].age = 35
    /\ TravelerRows[1].created_at = TravelerRows[3].created_at

====
